---- MODULE Spec2Model ----
(***************************************************************************)
(* Model of datachannel.SsmDataChannel (src/datachannel/data_channel.go):  *)
(* the client side of the SSM session protocol over one websocket.         *)
(*                                                                         *)
(* Goroutines: "main" runs Open and later Close; "r" is the reading        *)
(* caller (Read, WriteTo, WaitForHandshakeComplete, all through readMsg);  *)
(* the members of Writers call Write, SetTerminalSize, TerminateSession    *)
(* and DisconnectPort.  WriteMsg is modelled statement by statement since  *)
(* it reads synSent and seqNum outside the mutex.                          *)
(***************************************************************************)
EXTENDS Integers, Sequences, FiniteSets, TLC

\* ------------------------------------------------------------------ bounds
MaxFrames == 2          \* inbound frames the transport delivers
MaxCalls == 2           \* calls made by the reading caller
MaxOps == 3             \* outbound calls made by the writer
MaxLoopFrames == 1      \* inbound frames the receive loop gets while writers run
MaxConcOps == 2         \* outbound calls of the two concurrent writers
MaxActions == 2         \* requested client actions in one handshake request
MaxInSeq == 1           \* largest sequenceNumber of an inbound frame
MaxChunk == 2           \* bytes ReadFrom's buffer holds (1536 in the source)
MaxSrc == 3             \* bytes the source of ReadFrom holds
MaxReads == 3           \* calls of the source's Read that return no error

\* ------------------------------------------------------------ enumerations
Writers == {"w1", "w2"}
Reader == "r"
Main == "main"
Procs == Writers \cup {Reader}
NoProc == "none"

MessageTypes == {"InputStreamData", "OutputStreamData", "Acknowledge", "ChannelClosed"}
PayloadTypes == {"Output", "Size", "Flag", "HandshakeRequest", "HandshakeResponse",
                 "HandshakeComplete", "Undefined"}
Flags == {"Syn", "Data", "Ack", "Fin"}
ActionTypes == {"SessionType", "KMSEncryption"}
NoAction == ""          \* zero value of ActionType
Unset == "Unset"        \* zero value of ActionStatus
Success == "Success"
ClientVersion == "0.0.1"

\* error values returned by the operations
ErrNil == "nil"
ErrEOF == "EOF"

\* ------------------------------------------------------------------- state
VARIABLES
    seqNum,       \* c.seqNum
    mu,           \* c.mu: the goroutine holding it, or NoProc
    ws,           \* c.ws: "nil", or the connection's state: "open", "broken", "closed"
    synSent,      \* c.synSent
    handshakeCh,  \* c.handshakeCh: "nil", "open" or "closed"
    pc,           \* position of every goroutine
    msg,          \* the AgentMessage each goroutine is sending through WriteMsg
    rd,           \* the reading caller's call, WriteTo's n, and last results
    wres,         \* what the last outbound call of each writer returned
    wire,         \* what the transport was given, fragment by fragment
    rx,           \* the frames the transport delivered, in order
    log,          \* what every readMsg call returned, to which call of the reader
    sink,         \* the bytes WriteTo wrote to w
    fired,        \* the frames that closed handshakeCh
    closes,       \* per ws.Close() call: was the handle closed already
    ops,          \* outbound calls started
    openRet,      \* what Open returned
    panicked,     \* the process crashed with a run-time panic
    net,          \* the frames the peer may send on this connection
    lim,          \* how many frames, reader calls and outbound calls a run has, and
                  \* whether the callers keep their sends from overlapping
    rf            \* ReadFrom: its caller, n, buf[:x], the source and what it returned

vars == <<seqNum, mu, ws, synSent, handshakeCh, pc, msg, rd, wres, wire, rx, log,
          sink, fired, closes, ops, openRet, panicked, net, lim, rf>>

chanVars == <<seqNum, mu, ws, synSent, handshakeCh>>
histVars == <<wire, rx, log, sink, fired, closes>>

\* ----------------------------------------------------------------- helpers
Range(s) == {s[i] : i \in 1..Len(s)}

RECURSIVE SeqsUpTo(_, _)
SeqsUpTo(S, n) ==
    IF n = 0 THEN {<<>>}
    ELSE LET shorter == SeqsUpTo(S, n - 1)
         IN shorter \cup {Append(s, x) : s \in {t \in shorter : Len(t) = n - 1}, x \in S}

\* a []byte value: nil, or a (possibly empty) sequence of bytes
NilBytes == [isNil |-> TRUE, bytes |-> <<>>]
Bytes(b) == [isNil |-> FALSE, bytes |-> b]

\* ---------------------------------------------------------- inbound frames
\* An inbound transport frame.  valid: UnmarshalBinary accepts it.  bytes: the
\* payload of an Output frame, or the Output string of a ChannelClosedPayload.
\* jsonOK: json.Unmarshal accepts the payload.  actions: the ActionType of
\* every RequestedClientAction of a HandshakeRequestPayload.
Frame(v, mt, pt, sq, b, j, a) ==
    [valid |-> v, mtype |-> mt, ptype |-> pt, seq |-> sq, bytes |-> b,
     jsonOK |-> j, actions |-> a]

InSeqs == 0..MaxInSeq
OtherPayloadTypes == PayloadTypes \ {"Output", "HandshakeRequest", "HandshakeComplete"}
UnknownType == "Unknown"    \* a MessageType outside the enumeration

CorruptFrames == {Frame(FALSE, "OutputStreamData", "Output", 0, <<>>, FALSE, <<>>)}
AckFrames == {Frame(TRUE, "Acknowledge", "Undefined", sq, <<>>, TRUE, <<>>) : sq \in InSeqs}
OutputFrames == {Frame(TRUE, "OutputStreamData", "Output", sq, <<1, 2>>, TRUE, <<>>) : sq \in InSeqs}
RequestFrames(n) ==
    {Frame(TRUE, "OutputStreamData", "HandshakeRequest", sq, <<>>, TRUE, a) :
        sq \in InSeqs, a \in SeqsUpTo(ActionTypes, n)}
BadRequestFrames == {Frame(TRUE, "OutputStreamData", "HandshakeRequest", 0, <<>>, FALSE, <<>>)}
CompleteFrames == {Frame(TRUE, "OutputStreamData", "HandshakeComplete", sq, <<>>, TRUE, <<>>) : sq \in InSeqs}
OtherPayloadFrames ==
    {Frame(TRUE, "OutputStreamData", pt, 0, <<>>, TRUE, <<>>) : pt \in OtherPayloadTypes}
ClosedFrames ==
    {Frame(TRUE, "ChannelClosed", "Undefined", 0, b, TRUE, <<>>) : b \in {<<>>, <<3>>}}
        \cup {Frame(TRUE, "ChannelClosed", "Undefined", 0, <<>>, FALSE, <<>>)}
UnknownTypeFrames == {Frame(TRUE, UnknownType, "Undefined", 0, <<>>, TRUE, <<>>)}

Numbered(frames) == {f \in frames : f.seq = MaxInSeq}
AllFrames == CorruptFrames \cup BadRequestFrames \cup OtherPayloadFrames
                \cup ClosedFrames \cup UnknownTypeFrames
                \cup Numbered(AckFrames \cup OutputFrames \cup RequestFrames(0)
                                \cup CompleteFrames)
NoFrame == Frame(FALSE, "", "", 0, <<>>, FALSE, <<>>)

\* --------------------------------------------------------- outbound messages
\* NewAgentMessage with the fields the callers set.  op and re are bookkeeping:
\* the operation that built the message and the inbound frame (its position in
\* rx) that it answers, 0 when it answers none.
AgentMessage(mt, fl, sq, pt, pl, op, re) ==
    [mtype |-> mt, flags |-> fl, seq |-> sq, ptype |-> pt, payload |-> pl,
     op |-> op, re |-> re]
NoMsg == AgentMessage("", "", 0, "", [kind |-> "none"], "", 0)

\* The source of ReadFrom holds the bytes 1..MaxSrc.  by: the goroutine in
\* ReadFrom; n: its count; buf: buf[:x] of the last Read; left: what the source
\* still holds; taken: what Read has handed out; reads: calls of Read; ret:
\* what ReadFrom returned.
Source == [i \in 1..MaxSrc |-> i]
NoReadFrom ==
    [by |-> NoProc, n |-> 0, buf |-> <<>>, left |-> Source, taken |-> <<>>, reads |-> 0,
     ret |-> [n |-> 0, err |-> "none"]]

\* -------------------------------------------------------------------- Init
NoRet == [call |-> "none", n |-> 0, err |-> ErrNil]

\* new(SsmDataChannel): every field has its zero value.
Limits(f, c, o, serial) == [frames |-> f, calls |-> c, ops |-> o, serial |-> serial]

InitWith(frames, limits) ==
    /\ seqNum = 0
    /\ mu = NoProc
    /\ ws = "nil"
    /\ synSent = FALSE
    /\ handshakeCh = "nil"
    /\ pc = [p \in Procs \cup {Main} |-> IF p = Main THEN "new" ELSE "idle"]
    /\ msg = [p \in Procs |-> NoMsg]
    /\ rd = [call |-> "none", n |-> 0, calls |-> 0, last |-> NoRet]
    /\ wres = [p \in Writers |-> "none"]
    /\ wire = <<>>
    /\ rx = <<>>
    /\ log = <<>>
    /\ sink = <<>>
    /\ fired = <<>>
    /\ closes = <<>>
    /\ ops = 0
    /\ openRet = "none"
    /\ panicked = FALSE
    /\ net = frames
    /\ lim = limits
    /\ rf = NoReadFrom

\* ------------------------------------------------------------- Open, Close
Goto(p, l) == pc' = [pc EXCEPT ![p] = l]

\* Open: c.handshakeCh = make(chan bool, 1), then startSession.
Open ==
    /\ pc[Main] = "new" /\ ~panicked
    /\ handshakeCh' = "open"
    /\ Goto(Main, "StartSession")
    /\ UNCHANGED <<seqNum, mu, ws, synSent, msg, rd, wres, ops, openRet, panicked, net, lim, rf>>
    /\ UNCHANGED histVars

\* startSession: ssm.New(cfg).StartSession(in) succeeds or fails.
startSession_StartSession ==
    /\ pc[Main] = "StartSession"
    /\ \E ok \in BOOLEAN :
          IF ok THEN Goto(Main, "Dial") /\ openRet' = openRet
                ELSE Goto(Main, "opened") /\ openRet' = "StartSession"
    /\ UNCHANGED <<msg, rd, wres, ops, panicked, net, lim, rf>>
    /\ UNCHANGED chanVars /\ UNCHANGED histVars

\* startSession: c.ws, _, err = Dial(...); on error the Conn returned is nil.
startSession_Dial ==
    /\ pc[Main] = "Dial"
    /\ \E ok \in BOOLEAN :
          IF ok THEN ws' = "open" /\ Goto(Main, "openDataChannel") /\ openRet' = openRet
                ELSE ws' = "nil" /\ Goto(Main, "opened") /\ openRet' = "Dial"
    /\ UNCHANGED <<seqNum, mu, synSent, handshakeCh, msg, rd, wres, ops, panicked, net, lim, rf>>
    /\ UNCHANGED histVars

\* openDataChannel: c.mu.Lock()
openDataChannel_Lock ==
    /\ pc[Main] = "openDataChannel"
    /\ mu = NoProc
    /\ mu' = Main
    /\ Goto(Main, "WriteJSON")
    /\ UNCHANGED <<seqNum, ws, synSent, handshakeCh, msg, rd, wres, ops, openRet, panicked, net, lim, rf>>
    /\ UNCHANGED histVars

\* What the transport is given: one record per write to the connection.  A
\* binary frame reaches it as its header ("head") and then its payload
\* ("tail"); "fail" records a WriteMessage call that wrote nothing.
Fragment(part, p, m) == [part |-> part, by |-> p, m |-> m]
OpenDataChannelInput ==
    Fragment("whole", Main,
             AgentMessage("OpenDataChannel", "", 0, "", [kind |-> "json"], "openDataChannel", 0))

\* openDataChannel: c.ws.WriteJSON(openDataChanInput), then the deferred Unlock;
\* startSession goes on to c.Close() when it failed.
openDataChannel_WriteJSON ==
    /\ pc[Main] = "WriteJSON"
    /\ \E ok \in BOOLEAN :
          IF ok THEN /\ wire' = Append(wire, OpenDataChannelInput)
                     /\ ws' = ws
                     /\ Goto(Main, "opened")
                     /\ openRet' = "ok"
                ELSE /\ wire' = wire
                     /\ ws' = "broken"
                     /\ Goto(Main, "startSession_Close")
                     /\ openRet' = openRet
    /\ mu' = NoProc
    /\ UNCHANGED <<seqNum, synSent, handshakeCh, msg, rd, wres, ops, panicked, net, lim, rf>>
    /\ UNCHANGED <<rx, log, sink, fired, closes>>

\* Close: if c.ws != nil { err = c.ws.Close() }
CloseBody(next) ==
    /\ IF ws # "nil"
         THEN ws' = "closed" /\ closes' = Append(closes, ws = "closed")
         ELSE ws' = ws /\ closes' = closes
    /\ Goto(Main, next)

\* startSession: _ = c.Close(); return err  (openDataChannel failed)
startSession_Close ==
    /\ pc[Main] = "startSession_Close"
    /\ CloseBody("opened")
    /\ openRet' = "openDataChannel"
    /\ UNCHANGED <<seqNum, mu, synSent, handshakeCh, msg, rd, wres, ops, panicked, net, lim, rf>>
    /\ UNCHANGED <<wire, rx, log, sink, fired>>

\* The caller's Close, once Open has returned.
Close ==
    /\ pc[Main] = "opened" /\ ~panicked
    /\ CloseBody("closed")
    /\ UNCHANGED <<seqNum, mu, synSent, handshakeCh, msg, rd, wres, ops, openRet, panicked, net, lim, rf>>
    /\ UNCHANGED <<wire, rx, log, sink, fired>>

MainNext ==
    \/ Open
    \/ startSession_StartSession
    \/ startSession_Dial
    \/ openDataChannel_Lock
    \/ openDataChannel_WriteJSON
    \/ startSession_Close

Ready == openRet = "ok" /\ ~panicked

\* When the callers serialise their sends (lim.serial), a goroutine calls
\* WriteMsg only while no other goroutine is between its call of WriteMsg and
\* its return.
InWriteMsg(p) == pc[p] \in {"WriteMsg", "Store", "Load", "Lock", "WriteMessage", "Flush"}
MayCallWriteMsg(p) == lim.serial => \A q \in Procs \ {p} : ~InWriteMsg(q)

\* ---------------------------------------------------------------- readMsg
\* (the return path of readMsg is defined here because WriteMsg returns into it)

\* WriteTo: data, err = c.readMsg(); if data != nil { n += len; w.Write(data) };
\* if err != nil { break }
WriteTo_Step(d, e) ==
    LET n2 == IF d.isNil THEN rd.n ELSE rd.n + Len(d.bytes)
    IN /\ sink' = IF d.isNil THEN sink ELSE sink \o d.bytes
       /\ IF e # ErrNil
            THEN /\ rd' = [rd EXCEPT !.call = "none", !.n = 0,
                                      !.last = [call |-> "WriteTo", n |-> n2, err |-> e]]
                 /\ Goto(Reader, "idle")
            ELSE /\ rd' = [rd EXCEPT !.n = n2]
                 /\ Goto(Reader, "readMsg")

\* Read: data, err := c.readMsg(); return len(data), err
Read_Step(d, e) ==
    /\ sink' = sink
    /\ rd' = [rd EXCEPT !.call = "none",
                        !.last = [call |-> "Read", n |-> Len(d.bytes), err |-> e]]
    /\ Goto(Reader, "idle")

\* (mutant) WaitForHandshakeComplete goes on reading after an error
WaitForHandshakeComplete_Step_IgnoresError(d, e) ==
    /\ sink' = sink
    /\ rd' = rd
    /\ Goto(Reader, "select")

\* (mutant) WaitForHandshakeComplete hands the bytes it read to the sink
WaitForHandshakeComplete_Step_Delivers(d, e) ==
    /\ sink' = IF d.isNil THEN sink ELSE sink \o d.bytes
    /\ IF e # ErrNil
         THEN /\ rd' = [rd EXCEPT !.call = "none",
                                   !.last = [call |-> "WaitForHandshakeComplete", n |-> 0, err |-> e]]
              /\ Goto(Reader, "idle")
         ELSE /\ rd' = rd
              /\ Goto(Reader, "select")

\* WaitForHandshakeComplete: if _, err := c.readMsg(); err != nil { return err }
WaitForHandshakeComplete_Step(d, e) ==
    /\ sink' = sink
    /\ IF e # ErrNil
         THEN /\ rd' = [rd EXCEPT !.call = "none",
                                   !.last = [call |-> "WaitForHandshakeComplete", n |-> 0, err |-> e]]
              /\ Goto(Reader, "idle")
         ELSE /\ rd' = rd
              /\ Goto(Reader, "select")

\* readMsg returns (d, e) for frame id (0: no frame was read) to its caller.
readMsg_Return(id, d, e) ==
    /\ log' = Append(log, [id |-> id, data |-> d, err |-> e, call |-> rd.call, k |-> rd.calls])
    /\ CASE rd.call = "Read" -> Read_Step(d, e)
         [] rd.call = "WriteTo" -> WriteTo_Step(d, e)
         [] OTHER -> WaitForHandshakeComplete_Step(d, e)

\* (mutant) a failed handshake is passed over
HandshakeError_Swallowed(e) == ErrNil

\* if err = c.ProcessHandshakeRequest(m); err != nil { return nil, err }
HandshakeError(e) == e

\* (mutant) readMsg goes on to dispatch the frame although the acknowledgment
\* could not be sent
readMsg_AfterSend_IgnoresError(e) ==
    IF msg[Reader].op = "SendAcknowledgeMessage"
    THEN Goto(Reader, "dispatch") /\ UNCHANGED <<rd, log, sink>>
    ELSE readMsg_Return(Len(rx), NilBytes, e)

\* readMsg after c.SendAcknowledgeMessage(m) or c.ProcessHandshakeRequest(m)
\* returned e: an error is returned with no data; after a successful
\* acknowledgment the frame is dispatched; after a successful handshake
\* response readMsg returns nil, nil.
readMsg_AfterSend(e) ==
    IF msg[Reader].op = "SendAcknowledgeMessage"
    THEN IF e = ErrNil
         THEN Goto(Reader, "dispatch") /\ UNCHANGED <<rd, log, sink>>
         ELSE readMsg_Return(Len(rx), NilBytes, e)
    ELSE readMsg_Return(Len(rx), NilBytes, HandshakeError(e))

\* --------------------------------------------------------------- WriteMsg
\* msg.MarshalBinary(): fails when an enumerated field holds no known value.
MarshalBinary(m) ==
    [ok |-> m.mtype \in MessageTypes /\ m.ptype \in PayloadTypes /\ m.flags \in Flags,
     data |-> m]

\* ReadFrom after c.Write(buf[:x]) returned e: an error ends the loop and is
\* returned with n; otherwise the source is read again.
ReadFrom_Step(p, e) ==
    IF e # ErrNil
    THEN /\ rf' = [rf EXCEPT !.by = NoProc, !.ret = [n |-> rf.n, err |-> e]]
         /\ Goto(p, "idle")
    ELSE /\ rf' = rf
         /\ Goto(p, "ReadFrom_Read")

\* WriteMsg returns e to the goroutine p that called it.
WriteMsg_Return(p, e) ==
    IF p = Reader
    THEN readMsg_AfterSend(e) /\ wres' = wres /\ rf' = rf
    ELSE /\ wres' = [wres EXCEPT ![p] = e]
         /\ IF rf.by = p THEN ReadFrom_Step(p, e) ELSE Goto(p, "idle") /\ rf' = rf
         /\ UNCHANGED <<rd, log, sink>>

\* (mutant) every message is taken for the first one
FirstWrite_Always == TRUE

\* if !c.synSent
FirstWrite == ~synSent

\* (mutant) the sends of the receive loop draw a number from the counter
WriteMsg_Check_Counting(p) ==
    /\ pc[p] = "WriteMsg" /\ ~panicked
    /\ Goto(p, IF FirstWrite THEN "Store" ELSE "Lock")
    /\ seqNum' = IF p = Reader THEN seqNum + 1 ELSE seqNum
    /\ UNCHANGED <<mu, ws, synSent, handshakeCh>>
    /\ UNCHANGED <<msg, rd, wres, ops, openRet, panicked, net, lim, rf>>
    /\ UNCHANGED histVars

WriteMsg_Check(p) ==
    /\ pc[p] = "WriteMsg" /\ ~panicked
    /\ Goto(p, IF FirstWrite THEN "Store" ELSE "Lock")
    /\ UNCHANGED <<msg, rd, wres, ops, openRet, panicked, net, lim, rf>>
    /\ UNCHANGED chanVars /\ UNCHANGED histVars

\* atomic.StoreInt64(&c.seqNum, 0)
WriteMsg_Store(p) ==
    /\ pc[p] = "Store" /\ ~panicked
    /\ seqNum' = 0
    /\ Goto(p, "Load")
    /\ UNCHANGED <<mu, ws, synSent, handshakeCh, msg, rd, wres, ops, openRet, panicked, net, lim, rf>>
    /\ UNCHANGED histVars

\* (mutant) the override sets the sequence number but leaves the caller's flag
FirstWriteOverride_KeepsFlag(m, counter) == [m EXCEPT !.seq = counter]

\* msg.Flags = Syn; msg.SequenceNumber = c.seqNum
FirstWriteOverride(m, counter) == [m EXCEPT !.flags = "Syn", !.seq = counter]

WriteMsg_Load(p) ==
    /\ pc[p] = "Load" /\ ~panicked
    /\ msg' = [msg EXCEPT ![p] = FirstWriteOverride(msg[p], seqNum)]
    /\ Goto(p, "Lock")
    /\ UNCHANGED <<rd, wres, ops, openRet, panicked, net, lim, rf>>
    /\ UNCHANGED chanVars /\ UNCHANGED histVars

\* (mutant) WriteMsg sends without waiting for the mutex
LockFree_NoWait(p) == TRUE

\* c.mu.Lock() can proceed
LockFree(p) == mu = NoProc

\* (mutant) the mutex stays locked when WriteMsg returns
DeferredUnlock_Missing(p) == p

\* defer c.mu.Unlock(): the mutex is free once WriteMsg has returned
DeferredUnlock(p) == NoProc

\* data, err := msg.MarshalBinary(); if err != nil { return 0, err }; c.mu.Lock()
WriteMsg_Lock(p) ==
    /\ pc[p] = "Lock" /\ ~panicked
    /\ IF ~MarshalBinary(msg[p]).ok
         THEN /\ WriteMsg_Return(p, "MarshalBinary")
              /\ mu' = mu
         ELSE /\ LockFree(p)
              /\ mu' = p
              /\ Goto(p, "WriteMessage")
              /\ UNCHANGED <<rd, wres, log, sink, rf>>
    /\ UNCHANGED <<seqNum, ws, synSent, handshakeCh, msg, ops, openRet, panicked, net, lim>>
    /\ UNCHANGED <<wire, rx, fired, closes>>

\* c.synSent = true; c.ws.WriteMessage(websocket.BinaryMessage, data): the
\* connection takes the frame header, or fails (then the deferred Unlock runs
\* and the error is returned).  A connection that is closed or broken fails.
WriteMsg_WriteMessage(p) ==
    /\ pc[p] = "WriteMessage" /\ ~panicked
    /\ synSent' = TRUE
    /\ \E ok \in IF ws = "open" THEN BOOLEAN ELSE {FALSE} :
          IF ok THEN /\ wire' = Append(wire, Fragment("head", p, MarshalBinary(msg[p]).data))
                     /\ Goto(p, "Flush")
                     /\ UNCHANGED <<mu, ws, rd, wres, log, sink, rf>>
                ELSE /\ wire' = Append(wire, Fragment("fail", p, MarshalBinary(msg[p]).data))
                     /\ ws' = IF ws = "open" THEN "broken" ELSE ws
                     /\ mu' = DeferredUnlock(p)
                     /\ WriteMsg_Return(p, "WriteMessage")
    /\ UNCHANGED <<seqNum, handshakeCh, msg, ops, openRet, panicked, net, lim>>
    /\ UNCHANGED <<rx, fired, closes>>

\* WriteMessage completes: the payload follows the header; the deferred
\* c.mu.Unlock() runs and WriteMsg returns nil.
WriteMsg_Flush(p) ==
    /\ pc[p] = "Flush" /\ ~panicked
    /\ wire' = Append(wire, Fragment("tail", p, MarshalBinary(msg[p]).data))
    /\ mu' = DeferredUnlock(p)
    /\ WriteMsg_Return(p, ErrNil)
    /\ UNCHANGED <<seqNum, ws, synSent, handshakeCh, msg, ops, openRet, panicked, net, lim>>
    /\ UNCHANGED <<rx, fired, closes>>

WriteMsg(p) ==
    \/ WriteMsg_Check(p)
    \/ WriteMsg_Store(p)
    \/ WriteMsg_Load(p)
    \/ WriteMsg_Lock(p)
    \/ WriteMsg_WriteMessage(p)
    \/ WriteMsg_Flush(p)

\* -------------------------------------------------------- outbound calls
Payloads == {<<7>>}
TermDims == {24}
TerminateSessionFlag == [kind |-> "flag", value |-> "TerminateSession"]
DisconnectToPortFlag == [kind |-> "flag", value |-> "DisconnectToPort"]

\* (mutant) the counter is read without being advanced
AddInt64_NoAdd(counter) == counter

\* atomic.AddInt64(&c.seqNum, 1): the new value
AddInt64(counter) == counter + 1

\* A writer p starts an outbound call: the message is built with the next
\* sequence number and handed to WriteMsg.
Call(p, m) ==
    /\ pc[p] = "idle" /\ Ready
    /\ ops < lim.ops
    /\ MayCallWriteMsg(p)
    /\ ops' = ops + 1
    /\ seqNum' = AddInt64(seqNum)
    /\ msg' = [msg EXCEPT ![p] = m]
    /\ Goto(p, "WriteMsg")
    /\ UNCHANGED <<mu, ws, synSent, handshakeCh, rd, wres, openRet, panicked, net, lim, rf>>
    /\ UNCHANGED histVars

\* The message Write builds for payload.
WriteMessage(payload) ==
    AgentMessage("InputStreamData", "Data", AddInt64(seqNum), "Output",
                 [kind |-> "bytes", bytes |-> payload], "Write", 0)

Write(p) ==
    /\ pc[p] = "idle"
    /\ \E payload \in Payloads : Call(p, WriteMessage(payload))

SetTerminalSize(p) ==
    /\ pc[p] = "idle"
    /\ \E rows \in TermDims, cols \in TermDims :
        Call(p, AgentMessage("InputStreamData", "Data", AddInt64(seqNum), "Size",
                             [kind |-> "size", rows |-> rows, cols |-> cols],
                             "SetTerminalSize", 0))

TerminateSession(p) ==
    /\ pc[p] = "idle"
    /\ Call(p, AgentMessage("InputStreamData", "Fin", AddInt64(seqNum), "Flag",
                         TerminateSessionFlag, "TerminateSession", 0))

DisconnectPort(p) ==
    /\ pc[p] = "idle"
    /\ Call(p, AgentMessage("InputStreamData", "Data", AddInt64(seqNum), "Flag",
                         DisconnectToPortFlag, "DisconnectPort", 0))

WriterNext(p) ==
    \/ Write(p)
    \/ SetTerminalSize(p)
    \/ TerminateSession(p)
    \/ DisconnectPort(p)

\* ---------------------------------------------------------------- ReadFrom
Min(a, b) == IF a < b THEN a ELSE b

\* What r.Read(buf) may return when the source still holds `left`: x bytes,
\* 0 <= x <= len(buf), and an error; io.EOF only with the source's last bytes
\* (or with none, once it is empty).  The source fails or ends at the latest
\* after MaxReads reads.
SourceReads(left, reads) ==
    {r \in [x : 0..Min(MaxChunk, Len(left)), err : {ErrNil, ErrEOF, "Read"}] :
        /\ r.err = ErrEOF => r.x = Len(left)
        /\ reads >= MaxReads => r.err # ErrNil}

\* if errors.Is(err, io.EOF) { err = nil }
ReadFromError(e) == IF e = ErrEOF THEN ErrNil ELSE e

\* n, err = c.ReadFrom(r): buf := make([]byte, 1536); the loop is entered.
ReadFrom(p) ==
    /\ pc[p] = "idle" /\ Ready
    /\ rf.by = NoProc /\ rf.ret.err = "none"
    /\ rf' = [rf EXCEPT !.by = p, !.n = 0]
    /\ Goto(p, "ReadFrom_Read")
    /\ UNCHANGED <<msg, rd, wres, ops, openRet, panicked, net, lim>>
    /\ UNCHANGED chanVars /\ UNCHANGED histVars

\* x, err = r.Read(buf); n += int64(x); if err != nil { ...; break }
ReadFrom_Read(p) ==
    /\ pc[p] = "ReadFrom_Read" /\ rf.by = p /\ ~panicked
    /\ \E r \in SourceReads(rf.left, rf.reads) :
          LET got == SubSeq(rf.left, 1, r.x)
              now == [rf EXCEPT !.n = @ + r.x,
                                !.buf = got,
                                !.left = SubSeq(rf.left, r.x + 1, Len(rf.left)),
                                !.taken = @ \o got,
                                !.reads = @ + 1]
          IN IF r.err # ErrNil
             THEN /\ rf' = [now EXCEPT !.by = NoProc,
                                       !.ret = [n |-> now.n, err |-> ReadFromError(r.err)]]
                  /\ Goto(p, "idle")
             ELSE /\ rf' = now
                  /\ Goto(p, "ReadFrom_Write")
    /\ UNCHANGED <<msg, rd, wres, ops, openRet, panicked, net, lim>>
    /\ UNCHANGED chanVars /\ UNCHANGED histVars

\* if _, err = c.Write(buf[:x]); err != nil { ...; break }: Write is entered.
ReadFrom_Write(p) ==
    /\ pc[p] = "ReadFrom_Write" /\ rf.by = p /\ ~panicked
    /\ MayCallWriteMsg(p)
    /\ ops' = ops + 1
    /\ seqNum' = AddInt64(seqNum)
    /\ msg' = [msg EXCEPT ![p] = WriteMessage(rf.buf)]
    /\ Goto(p, "WriteMsg")
    /\ UNCHANGED <<mu, ws, synSent, handshakeCh, rd, wres, openRet, panicked, net, lim, rf>>
    /\ UNCHANGED histVars

\* ------------------------------------------------------ handshake response
\* (mutant) every requested action is reported as processed successfully
ProcessedClientAction_AlwaysSuccess(a) == [ActionType |-> a, ActionStatus |-> Success]

\* buildHandshakeResponse: one ProcessedClientAction per requested action; only
\* a SessionType action gets its ActionType and ActionStatus set.
ProcessedClientAction(a) ==
    IF a = "SessionType"
    THEN [ActionType |-> a, ActionStatus |-> Success]
    ELSE [ActionType |-> NoAction, ActionStatus |-> Unset]

buildHandshakeResponse(actions) ==
    [kind |-> "HandshakeResponsePayload",
     ClientVersion |-> ClientVersion,
     ProcessedClientActions |-> [i \in 1..Len(actions) |-> ProcessedClientAction(actions[i])]]

\* SendAcknowledgeMessage: the Acknowledge message for inbound frame m, the
\* id-th frame read (its messageId).
AcknowledgeMessage(m, id) ==
    AgentMessage("Acknowledge", "Ack", m.seq, "Undefined",
                 [kind |-> "ack",
                  AcknowledgedMessageType |-> m.mtype,
                  AcknowledgedMessageId |-> id,
                  AcknowledgedMessageSequenceNumber |-> m.seq,
                  IsSequentialMessage |-> TRUE],
                 "SendAcknowledgeMessage", id)

\* ProcessHandshakeRequest: the HandshakeResponse message for request m.
HandshakeResponseMessage(m, id) ==
    AgentMessage("InputStreamData", "Data", m.seq, "HandshakeResponse",
                 buildHandshakeResponse(m.actions), "ProcessHandshakeRequest", id)

\* ------------------------------------------------------ the reading caller
StartCall(name, first) ==
    /\ pc[Reader] = "idle" /\ Ready
    /\ rd.calls < lim.calls
    /\ rd' = [rd EXCEPT !.call = name, !.n = 0, !.calls = @ + 1]
    /\ Goto(Reader, first)
    /\ UNCHANGED <<msg, wres, ops, openRet, panicked, net, lim, rf>>
    /\ UNCHANGED chanVars /\ UNCHANGED histVars

Read == pc[Reader] = "idle" /\ StartCall("Read", "readMsg")
WriteTo == pc[Reader] = "idle" /\ StartCall("WriteTo", "readMsg")
WaitForHandshakeComplete ==
    pc[Reader] = "idle" /\ StartCall("WaitForHandshakeComplete", "select")

\* (mutant) the signal is never seen
HandshakeChReady_Never == FALSE

\* case <-c.handshakeCh: a receive from a closed channel proceeds
HandshakeChReady == handshakeCh = "closed"

\* WaitForHandshakeComplete: select { case <-c.handshakeCh: return nil;
\* default: readMsg }
WaitForHandshakeComplete_Select ==
    /\ pc[Reader] = "select" /\ ~panicked
    /\ IF HandshakeChReady
         THEN /\ rd' = [rd EXCEPT !.call = "none",
                                   !.last = [call |-> "WaitForHandshakeComplete", n |-> 0,
                                             err |-> ErrNil]]
              /\ Goto(Reader, "idle")
         ELSE /\ rd' = rd
              /\ Goto(Reader, "readMsg")
    /\ UNCHANGED <<msg, wres, ops, openRet, panicked, net, lim, rf>>
    /\ UNCHANGED chanVars /\ UNCHANGED histVars

\* readMsg: c.ws.ReadMessage() returns a frame; m.UnmarshalBinary(data) rejects
\* it, or c.SendAcknowledgeMessage(m) is entered.
readMsg_ReadMessage ==
    /\ pc[Reader] = "readMsg" /\ ~panicked
    /\ ws = "open"
    /\ Len(rx) < lim.frames
    /\ MayCallWriteMsg(Reader)
    /\ \E f \in net :
          /\ rx' = Append(rx, f)
          /\ IF ~f.valid
               THEN /\ readMsg_Return(Len(rx) + 1, NilBytes, "UnmarshalBinary")
                    /\ msg' = msg
               ELSE /\ msg' = [msg EXCEPT ![Reader] = AcknowledgeMessage(f, Len(rx) + 1)]
                    /\ Goto(Reader, "WriteMsg")
                    /\ UNCHANGED <<rd, log, sink>>
    /\ UNCHANGED <<wres, ops, openRet, panicked, net, lim, rf>>
    /\ UNCHANGED chanVars /\ UNCHANGED <<wire, fired, closes>>

\* readMsg: c.ws.ReadMessage() fails: the connection breaks, or it is broken
\* or closed already.
readMsg_ReadError ==
    /\ pc[Reader] = "readMsg" /\ ~panicked
    /\ ws' = IF ws = "open" THEN "broken" ELSE ws
    /\ readMsg_Return(0, NilBytes, "ReadMessage")
    /\ UNCHANGED <<seqNum, mu, synSent, handshakeCh, msg, wres, ops, openRet, panicked, net, lim, rf>>
    /\ UNCHANGED <<wire, rx, fired, closes>>

\* The frame readMsg is handling.
CurFrame == IF Len(rx) = 0 THEN NoFrame ELSE rx[Len(rx)]

Dispatching(mt, pts) ==
    /\ pc[Reader] = "dispatch" /\ ~panicked
    /\ CurFrame.mtype = mt
    /\ mt = "OutputStreamData" => CurFrame.ptype \in pts

\* case Acknowledge: nothing; return nil, nil
readMsg_Acknowledge ==
    /\ Dispatching("Acknowledge", {})
    /\ readMsg_Return(Len(rx), NilBytes, ErrNil)
    /\ UNCHANGED <<msg, wres, ops, openRet, panicked, net, lim, rf>>
    /\ UNCHANGED chanVars /\ UNCHANGED <<wire, rx, fired, closes>>

\* case Output: return m.Payload, nil
readMsg_Output ==
    /\ Dispatching("OutputStreamData", {"Output"})
    /\ readMsg_Return(Len(rx), Bytes(CurFrame.bytes), ErrNil)
    /\ UNCHANGED <<msg, wres, ops, openRet, panicked, net, lim, rf>>
    /\ UNCHANGED chanVars /\ UNCHANGED <<wire, rx, fired, closes>>

\* case HandshakeRequest: c.ProcessHandshakeRequest(m): json.Unmarshal fails
\* and the error is returned, or the response is handed to WriteMsg.
ProcessHandshakeRequest ==
    /\ Dispatching("OutputStreamData", {"HandshakeRequest"})
    /\ MayCallWriteMsg(Reader)
    /\ IF ~CurFrame.jsonOK
         THEN /\ readMsg_Return(Len(rx), NilBytes, HandshakeError("json.Unmarshal"))
              /\ msg' = msg
         ELSE /\ msg' = [msg EXCEPT ![Reader] = HandshakeResponseMessage(CurFrame, Len(rx))]
              /\ Goto(Reader, "WriteMsg")
              /\ UNCHANGED <<rd, log, sink>>
    /\ UNCHANGED <<wres, ops, openRet, panicked, net, lim, rf>>
    /\ UNCHANGED chanVars /\ UNCHANGED <<wire, rx, fired, closes>>

\* if c.handshakeCh != nil: the guard in front of close(c.handshakeCh)
HandshakeChPresent == handshakeCh # "nil"

\* case HandshakeComplete: if c.handshakeCh != nil { close(c.handshakeCh) };
\* closing a closed channel panics.
readMsg_HandshakeComplete ==
    /\ Dispatching("OutputStreamData", {"HandshakeComplete"})
    /\ IF HandshakeChPresent /\ handshakeCh = "closed"
         THEN /\ panicked' = TRUE
              /\ Goto(Reader, "panic")
              /\ UNCHANGED <<handshakeCh, fired, rd, log, sink>>
         ELSE /\ panicked' = panicked
              /\ IF HandshakeChPresent
                   THEN handshakeCh' = "closed" /\ fired' = Append(fired, Len(rx))
                   ELSE UNCHANGED <<handshakeCh, fired>>
              /\ readMsg_Return(Len(rx), NilBytes, ErrNil)
    /\ UNCHANGED <<seqNum, mu, ws, synSent, msg, wres, ops, openRet, net, lim, rf>>
    /\ UNCHANGED <<wire, rx, closes>>

\* (mutant) an unknown payload type is skipped like an Acknowledge message
readMsg_UnknownPayload_Skipped ==
    /\ Dispatching("OutputStreamData", OtherPayloadTypes)
    /\ readMsg_Return(Len(rx), NilBytes, ErrNil)
    /\ UNCHANGED <<msg, wres, ops, openRet, panicked, net, lim, rf>>
    /\ UNCHANGED chanVars /\ UNCHANGED <<wire, rx, fired, closes>>

\* default: return nil, fmt.Errorf("UNKNOWN INCOMING MSG PAYLOAD: ...")
readMsg_UnknownPayload ==
    /\ Dispatching("OutputStreamData", OtherPayloadTypes)
    /\ readMsg_Return(Len(rx), NilBytes, "UNKNOWN INCOMING MSG PAYLOAD")
    /\ UNCHANGED <<msg, wres, ops, openRet, panicked, net, lim, rf>>
    /\ UNCHANGED chanVars /\ UNCHANGED <<wire, rx, fired, closes>>

\* (mutant) a closing frame's output is dropped
ChannelClosedOutput_Dropped(m) == NilBytes

\* case ChannelClosed: the payload's Output (nil when empty) with io.EOF, or
\* the json.Unmarshal error.
ChannelClosedOutput(m) == IF Len(m.bytes) > 0 THEN Bytes(m.bytes) ELSE NilBytes

readMsg_ChannelClosed ==
    /\ Dispatching("ChannelClosed", {})
    /\ IF ~CurFrame.jsonOK
         THEN readMsg_Return(Len(rx), NilBytes, "json.Unmarshal")
         ELSE readMsg_Return(Len(rx), ChannelClosedOutput(CurFrame), ErrEOF)
    /\ UNCHANGED <<msg, wres, ops, openRet, panicked, net, lim, rf>>
    /\ UNCHANGED chanVars /\ UNCHANGED <<wire, rx, fired, closes>>

\* default: return nil, fmt.Errorf("UNKNOWN MESSAGE TYPE: ...")
readMsg_UnknownType ==
    /\ pc[Reader] = "dispatch" /\ ~panicked
    /\ CurFrame.mtype \notin {"Acknowledge", "OutputStreamData", "ChannelClosed"}
    /\ readMsg_Return(Len(rx), NilBytes, "UNKNOWN MESSAGE TYPE")
    /\ UNCHANGED <<msg, wres, ops, openRet, panicked, net, lim, rf>>
    /\ UNCHANGED chanVars /\ UNCHANGED <<wire, rx, fired, closes>>

readMsg ==
    \/ readMsg_ReadMessage
    \/ readMsg_ReadError
    \/ readMsg_Acknowledge
    \/ readMsg_Output
    \/ ProcessHandshakeRequest
    \/ readMsg_HandshakeComplete
    \/ readMsg_UnknownPayload
    \/ readMsg_ChannelClosed
    \/ readMsg_UnknownType

ReaderNext ==
    \/ Read
    \/ WriteTo
    \/ WaitForHandshakeComplete
    \/ WaitForHandshakeComplete_Select
    \/ readMsg

\* ---------------------------------------------------------- specifications
ReceiveLoop ==
    \/ readMsg_ReadMessage
    \/ readMsg_ReadError
    \/ readMsg_Output
    \/ ProcessHandshakeRequest
    \/ WriteMsg(Reader)

\* The goroutines of one channel in every interleaving: Open, then two writers
\* calling Write while WriteTo runs the receive loop.
Next ==
    \/ MainNext
    \/ WriteTo
    \/ ReceiveLoop
    \/ \E p \in Writers : Write(p) \/ WriteMsg(p)

ConcFrames == Numbered(OutputFrames \cup RequestFrames(0))

Spec == InitWith(ConcFrames, Limits(MaxLoopFrames, 1, MaxConcOps, FALSE)) /\ [][Next]_vars

\* One writer, and calls that send do not overlap (lim.serial).
W1 == "w1"

NextSeq ==
    \/ MainNext
    \/ WriteTo
    \/ ReceiveLoop
    \/ WriterNext(W1)
    \/ WriteMsg(W1)

SeqFrames == Numbered(OutputFrames \cup RequestFrames(0))

SpecSeq == InitWith(SeqFrames, Limits(MaxLoopFrames, 1, MaxOps, TRUE)) /\ [][NextSeq]_vars

\* The reading caller alone, against every kind of inbound frame, with the
\* caller's Close at any moment after Open returned.
NextRead ==
    \/ MainNext
    \/ Close
    \/ ReaderNext
    \/ WriteMsg(Reader)

SpecRead == InitWith(AllFrames, Limits(MaxFrames, MaxCalls, 0, FALSE)) /\ [][NextRead]_vars

\* The receive loop against handshake requests of up to MaxActions actions.
NextHandshake ==
    \/ MainNext
    \/ Read
    \/ readMsg_ReadMessage
    \/ readMsg_ReadError
    \/ ProcessHandshakeRequest
    \/ WriteMsg(Reader)

SpecHandshake ==
    InitWith(RequestFrames(MaxActions), Limits(MaxFrames, MaxCalls, 0, FALSE)) /\ [][NextHandshake]_vars

\* The reading caller alone, as in SpecRead, where the reading goroutine is
\* scheduled again and again and the connection's ReadMessage returns (a frame
\* or an error) whenever it is called.
ReaderStep == ReaderNext \/ WriteMsg(Reader)

SpecReadFair == SpecRead /\ WF_vars(ReaderStep)

\* One goroutine drains a source into the channel with ReadFrom.
NextReadFrom ==
    \/ MainNext
    \/ ReadFrom(W1)
    \/ ReadFrom_Read(W1)
    \/ ReadFrom_Write(W1)
    \/ WriteMsg(W1)

SpecReadFrom == InitWith({}, Limits(0, 0, 0, FALSE)) /\ [][NextReadFrom]_vars

\* ------------------------------------------------------------- properties
\* The messages the transport took, in send order (one "head" per message).
Heads == SelectSeq(wire, LAMBDA f : f.part = "head")
Sent(i) == Heads[i].m
WriterOps == {"Write", "SetTerminalSize", "TerminateSession", "DisconnectPort"}
Count(S) == Cardinality(S)

\* C1: on a fresh channel, N sequential Write calls with no other outbound
\* message in between put on the transport messages numbered 0, 1, ..., N-1,
\* in that order; the first carries the Syn flag, no other one does.
C1_SequentialWrites ==
    (\A i \in 1..Len(Heads) : Sent(i).op = "Write")
        => \A i \in 1..Len(Heads) :
              /\ Sent(i).seq = i - 1
              /\ (Sent(i).flags = "Syn") <=> (i = 1)

\* C1 witness: three Write calls have returned and their three messages are all
\* that was sent.
C1_Witness ==
    /\ Len(Heads) = 3
    /\ \A i \in 1..3 : Sent(i).op = "Write"
    /\ ops = 3 /\ pc[W1] = "idle" /\ wres[W1] = ErrNil

InSend(p) == IF p = Main THEN pc[p] = "WriteJSON" ELSE pc[p] \in {"WriteMessage", "Flush"}
BeforeSend(p) == pc[p] \in {"WriteMsg", "Store", "Load", "Lock", "WriteMessage"}

C4_SerializedSends ==
    /\ Count({p \in Procs \cup {Main} : InSend(p)}) <= 1
    /\ \A i \in 1..Len(wire) :
          /\ wire[i].part = "head" =>
                IF i = Len(wire) THEN pc[wire[i].by] = "Flush"
                ELSE wire[i + 1] = Fragment("tail", wire[i].by, wire[i].m)
          /\ wire[i].part = "tail" =>
                i > 1 /\ wire[i - 1] = Fragment("head", wire[i].by, wire[i].m)
    /\ ops = Count({i \in 1..Len(wire) : wire[i].part \in {"head", "fail"} /\ wire[i].by \in Writers})
              + Count({p \in Writers : BeforeSend(p)})

\* C4 witness: two Write calls and the receive loop's acknowledgment were in
\* WriteMsg together, one of them waiting for the mutex while another sends,
\* and both Write frames end up on the transport.
C4_Witness ==
    /\ \E p \in Writers : pc[p] = "Flush" /\ pc[Reader] = "Lock"
    /\ \E i \in 1..Len(wire) : wire[i].part = "tail" /\ wire[i].by \in Writers

\* The Acknowledge messages on the transport for the id-th inbound frame, the
\* calls of the send that were made for it, and the handshake responses to it.
IsAckFor(m, id) ==
    /\ m.mtype = "Acknowledge"
    /\ m.payload.kind = "ack"
    /\ m.payload.AcknowledgedMessageId = id
    /\ m.payload.AcknowledgedMessageType = rx[id].mtype
AcksFor(id) == {i \in 1..Len(Heads) : IsAckFor(Sent(i), id)}
AckCallsFor(id) ==
    {i \in 1..Len(wire) : wire[i].part \in {"head", "fail"} /\ IsAckFor(wire[i].m, id)}
ResponsesFor(id) ==
    {i \in 1..Len(Heads) : Sent(i).ptype = "HandshakeResponse" /\ Sent(i).re = id}
Returns(id) == {i \in 1..Len(log) : log[i].id = id}
Acked(id) == AcksFor(id) # {}

\* C2: for every inbound frame that decodes, of whatever type, readMsg makes
\* exactly one Acknowledge send, and it is on the transport before any effect
\* of the frame (payload or end-of-stream returned, handshake response sent,
\* completion signal fired); when that send fails there is no effect and the
\* caller gets the error with no data.
C2_AckBeforeEffect ==
    \A id \in 1..Len(rx) :
        /\ Count(AcksFor(id)) <= 1
        /\ ~rx[id].valid => AckCallsFor(id) = {}
        /\ \A i \in ResponsesFor(id) : \E a \in AcksFor(id) : a < i
        /\ id \in Range(fired) => Acked(id)
        /\ \A i \in Returns(id) :
              /\ (~log[i].data.isNil \/ log[i].err \in {ErrNil, ErrEOF}) => Acked(id)
              /\ rx[id].valid => Count(AckCallsFor(id)) = 1
              /\ (rx[id].valid /\ ~Acked(id)) =>
                    /\ log[i].err = "WriteMessage"
                    /\ log[i].data.isNil
                    /\ ResponsesFor(id) = {}
                    /\ id \notin Range(fired)

\* C2 witness: an Output frame's payload was returned to the caller, after its
\* acknowledgment; and another frame's acknowledgment failed.
C2_Witness ==
    /\ \E i \in 1..Len(log) :
          /\ log[i].id > 0 /\ rx[log[i].id].ptype = "Output"
          /\ ~log[i].data.isNil /\ Acked(log[i].id)
    /\ \E i \in 1..Len(log) :
          log[i].id > 0 /\ rx[log[i].id].valid /\ ~Acked(log[i].id)

\* C5 (as claimed): the completion signal fires once, for the first
\* HandshakeComplete frame; a later HandshakeComplete frame is handled without
\* a crash and returns no data and no error.
C5_FiresOnceNoCrash ==
    /\ ~panicked
    /\ Len(fired) <= 1
    /\ \A i \in 1..Len(log) :
          (log[i].id > 0 /\ rx[log[i].id].ptype = "HandshakeComplete" /\ Acked(log[i].id))
              => log[i].data.isNil /\ log[i].err = ErrNil /\ Len(fired) = 1

\* What WriteTo wrote to its sink according to what readMsg returned to it.
RECURSIVE WriteToData(_)
WriteToData(i) ==
    IF i = 0 THEN <<>>
    ELSE WriteToData(i - 1) \o
            (IF log[i].call = "WriteTo" /\ ~log[i].data.isNil THEN log[i].data.bytes ELSE <<>>)

RECURSIVE CallBytes(_, _)
CallBytes(k, i) ==
    IF i = 0 THEN 0
    ELSE CallBytes(k, i - 1) +
            (IF log[i].k = k /\ ~log[i].data.isNil THEN Len(log[i].data.bytes) ELSE 0)

\* The i-th return of readMsg ended the reader's call: it is the call's last
\* return and, until the reader makes its next call, the reader is back with
\* result r.
EndsCall(i, r) ==
    /\ \A j \in (i + 1)..Len(log) : log[j].k # log[i].k
    /\ rd.calls = log[i].k => pc[Reader] = "idle" /\ rd.last = r

\* C6: a ChannelClosed frame with non-empty output hands that output to the
\* caller once, with end-of-stream: readMsg returns the bytes with io.EOF;
\* WriteTo writes them to the sink once, counts them and stops reading.
C6_TrailingOutput ==
    /\ sink = WriteToData(Len(log))
    /\ \A i \in 1..Len(log) :
          LET e == log[i]
              f == IF e.id > 0 THEN rx[e.id] ELSE NoFrame
          IN (f.valid /\ f.mtype = "ChannelClosed" /\ f.jsonOK /\ Len(f.bytes) > 0 /\ Acked(e.id))
                => /\ e.data = Bytes(f.bytes)
                   /\ e.err = ErrEOF
                   /\ Count(Returns(e.id)) = 1
                   /\ e.call = "WriteTo" =>
                         EndsCall(i, [call |-> "WriteTo", n |-> CallBytes(e.k, i), err |-> ErrEOF])

\* C6 witness: WriteTo delivered an Output frame and then the output of a
\* ChannelClosed frame, and returned.
C6_Witness ==
    /\ Len(log) = 2 /\ log[1].k = log[2].k
    /\ log[2].id = 2 /\ rx[2].mtype = "ChannelClosed"
    /\ sink = <<1, 2, 3>>
    /\ rd.last = [call |-> "WriteTo", n |-> 3, err |-> ErrEOF]

\* C7: an OutputStreamData frame whose payloadType is none of Output,
\* HandshakeRequest, HandshakeComplete makes readMsg return an error and no
\* bytes; WriteTo writes nothing of it and ends, WaitForHandshakeComplete ends
\* with that error.
C7_UnknownPayloadType ==
    \A i \in 1..Len(log) :
        LET e == log[i]
            f == IF e.id > 0 THEN rx[e.id] ELSE NoFrame
        IN (f.valid /\ f.mtype = "OutputStreamData" /\ f.ptype \in OtherPayloadTypes)
              => /\ e.err \notin {ErrNil, ErrEOF}
                 /\ Acked(e.id) => e.err = "UNKNOWN INCOMING MSG PAYLOAD"
                 /\ e.data.isNil
                 /\ sink = WriteToData(Len(log))
                 /\ EndsCall(i, [call |-> e.call,
                                  n |-> IF e.call = "WriteTo" THEN CallBytes(e.k, i) ELSE 0,
                                  err |-> e.err])

\* C7 witness: WaitForHandshakeComplete read an acknowledged frame of an
\* unknown payload type after another frame, and returned the error.
C7_Witness ==
    /\ Len(log) = 2 /\ log[1].k = log[2].k
    /\ log[2].id = 2 /\ rx[2].ptype \in OtherPayloadTypes /\ Acked(2)
    /\ rd.last = [call |-> "WaitForHandshakeComplete", n |-> 0,
                   err |-> "UNKNOWN INCOMING MSG PAYLOAD"]

\* The handshake responses on the transport answer their requests as follows:
\* one processed action per requested action, in order; a SessionType request
\* is marked Success; any other request gets the action type `other` gives
\* for it and no status; the client version is fixed.
ResponsesAnswer(other(_)) ==
    \A i \in 1..Len(Heads) :
        Sent(i).ptype = "HandshakeResponse" =>
            LET req == rx[Sent(i).re].actions
                res == Sent(i).payload
            IN /\ res.ClientVersion = "0.0.1"
               /\ Len(res.ProcessedClientActions) = Len(req)
               /\ \A k \in 1..Len(req) :
                     IF req[k] = "SessionType"
                     THEN res.ProcessedClientActions[k] =
                            [ActionType |-> "SessionType", ActionStatus |-> Success]
                     ELSE res.ProcessedClientActions[k] =
                            [ActionType |-> other(req[k]), ActionStatus |-> Unset]

\* C8 (as claimed): k processed actions answer k requests in order; SessionType
\* is marked Success; a request of any other type is echoed back with the
\* unset status; the client version is fixed.
C8_OthersEchoed == ResponsesAnswer(LAMBDA a : a)

\* C8 (amended): as claimed, except that a request of any other type is
\* answered by a zero-value action: its action type is not echoed, and its
\* status is unset.
C8_OthersZeroValue == ResponsesAnswer(LAMBDA a : NoAction)

\* C8 witness: the response to a request for a KMSEncryption and a SessionType
\* action is on the transport.
C8_Witness ==
    \E i \in 1..Len(Heads) :
        /\ Sent(i).ptype = "HandshakeResponse"
        /\ rx[Sent(i).re].actions = <<"KMSEncryption", "SessionType">>

\* C9 (as claimed): once a read call has returned an error or end-of-stream,
\* every further read call fails with an error without taking another frame
\* from the transport.
C9_FailFast ==
    \A i \in 1..Len(log) :
        log[i].err # ErrNil =>
            /\ \A j \in (i + 1)..Len(log) : log[j].id = 0 /\ log[j].err # ErrNil
            /\ \A id \in 1..Len(rx) : \E j \in 1..i : log[j].id = id

\* C10 (as claimed): after Open (succeeding or failing at any step) and the
\* caller's Close, a connected handle has been closed exactly once, and Close
\* is never invoked on a handle that is closed already.
C10_ClosedExactlyOnce ==
    /\ \A i \in 1..Len(closes) : ~closes[i]
    /\ pc[Main] = "closed" => (IF ws = "nil" THEN closes = <<>> ELSE closes = <<FALSE>>)

\* C11 (as claimed): WriteTo reads frame after frame until readMsg returns an
\* error, and returns nil when that error is the io.EOF of a ChannelClosed
\* frame; it returns a non-nil error only for the other errors.
C11_CleanEndIsNil ==
    \A i \in 1..Len(log) :
        (log[i].call = "WriteTo" /\ rd.calls = log[i].k /\ pc[Reader] = "idle")
            => /\ rd.last.call = "WriteTo"
               /\ log[i].err = ErrEOF => rd.last.err = ErrNil
               /\ (i = Len(log) /\ log[i].err # ErrEOF) => rd.last.err = log[i].err

\* What WaitForHandshakeComplete returns, and when.
WaitResult(e) == [call |-> "WaitForHandshakeComplete", n |-> 0, err |-> e]
InWait == rd.call = "WaitForHandshakeComplete"

WaitReturnsRight ==
    /\ (rd.last = WaitResult(ErrNil)) => (fired # <<>> /\ handshakeCh = "closed")
    /\ \A i \in 1..Len(log) :
          (log[i].call = "WaitForHandshakeComplete" /\ log[i].err # ErrNil)
              => EndsCall(i, WaitResult(log[i].err))
    /\ \A i \in 1..Len(log) :
          (log[i].call = "WaitForHandshakeComplete" /\ log[i].err = ErrNil /\ i = Len(log)
             /\ rd.calls = log[i].k /\ pc[Reader] = "idle")
              => log[i].id \in Range(fired)

\* C12: WaitForHandshakeComplete returns nil only when the completion signal
\* has fired (a HandshakeComplete frame was dispatched); an error or
\* end-of-stream that readMsg returns to it first is what it returns; and,
\* the connection's reads returning a frame or an error and the transport
\* ending with HandshakeComplete or an error, the call returns.
C12_WaitReturns == []WaitReturnsRight /\ (InWait ~> ~InWait)

\* C12 witness: WaitForHandshakeComplete read an Output frame and then the
\* HandshakeComplete frame, and returned nil.
C12_Witness ==
    /\ Len(log) = 2 /\ log[1].k = log[2].k
    /\ Len(rx) = 2 /\ rx[1].ptype = "Output" /\ rx[2].ptype = "HandshakeComplete"
    /\ fired = <<2>>
    /\ pc[Reader] = "idle" /\ rd.last = WaitResult(ErrNil)

\* C13 (as claimed): under every interleaving of concurrent WriteMsg callers
\* on a fresh channel exactly one message on the wire carries Syn and
\* sequenceNumber 0, and it is the first message sent; the counter is not set
\* back to 0 once another caller has drawn a number that goes out without the
\* override, so the numbers the callers' messages carry are all different.
Overridden == {i \in 1..Len(Heads) : Sent(i).flags = "Syn"}

C13_SingleOverride ==
    /\ Overridden = (IF Len(Heads) = 0 THEN {} ELSE {1})
    /\ \A i \in Overridden : Sent(i).seq = 0
    /\ \A i, j \in 1..Len(Heads) :
          (i < j /\ Sent(i).op \in WriterOps /\ Sent(j).op \in WriterOps)
              => Sent(i).seq # Sent(j).seq

RECURSIVE SentBytes(_)
SentBytes(i) ==
    IF i = 0 THEN <<>>
    ELSE SentBytes(i - 1) \o
            (IF Sent(i).op = "Write" THEN Sent(i).payload.bytes ELSE <<>>)

ReadFromReturned == rf.ret.err # "none"

\* C15 (as claimed): every Write message of ReadFrom carries at most a
\* buffer of bytes; when ReadFrom has returned with a nil error, every byte it
\* read from the source, the bytes of the last read that came with io.EOF
\* included, was sent, in source order, and the count it returned is the
\* number of payload bytes sent; io.EOF of the source is returned as nil.
C15_DrainsSource ==
    /\ \A i \in 1..Len(Heads) : Sent(i).op = "Write" => Len(Sent(i).payload.bytes) <= MaxChunk
    /\ ReadFromReturned =>
          /\ rf.ret.err # ErrEOF
          /\ rf.ret.err = ErrNil =>
                /\ SentBytes(Len(Heads)) = rf.taken
                /\ rf.ret.n = Len(SentBytes(Len(Heads)))

\* The calls of the send made with a handshake response to the id-th frame.
ResponseCallsFor(id) ==
    {i \in 1..Len(wire) : /\ wire[i].part \in {"head", "fail"}
                          /\ wire[i].m.ptype = "HandshakeResponse"
                          /\ wire[i].m.re = id}
IsRequest(f) == f.valid /\ f.mtype = "OutputStreamData" /\ f.ptype = "HandshakeRequest"

\* C16: a HandshakeRequest whose payload does not decode gets no
\* HandshakeResponse; a response is tried at most once; when decoding or the
\* send of the response fails, readMsg returns that error and no data, the
\* frame does not fire the completion signal, and WaitForHandshakeComplete
\* returns that error without reading on.
C16_HandshakeFailureFatal ==
    \A id \in 1..Len(rx) :
        IsRequest(rx[id]) =>
            /\ ~rx[id].jsonOK => ResponseCallsFor(id) = {}
            /\ Count(ResponseCallsFor(id)) <= 1
            /\ id \notin Range(fired)
            /\ \A i \in Returns(id) :
                  /\ log[i].data.isNil
                  /\ Count(Returns(id)) = 1
                  /\ (log[i].err = ErrNil) <=> (ResponsesFor(id) # {})
                  /\ (Acked(id) /\ ~rx[id].jsonOK) => log[i].err = "json.Unmarshal"
                  /\ (Acked(id) /\ rx[id].jsonOK /\ ResponsesFor(id) = {}) =>
                        log[i].err = "WriteMessage" /\ Count(ResponseCallsFor(id)) = 1
                  /\ (log[i].call = "WaitForHandshakeComplete" /\ log[i].err # ErrNil) =>
                        EndsCall(i, WaitResult(log[i].err))

\* C16 witness: WaitForHandshakeComplete answered one handshake request, then
\* the send of the response to a second request failed, and it returned that
\* error.
C16_Witness ==
    /\ Len(rx) = 2 /\ IsRequest(rx[1]) /\ IsRequest(rx[2])
    /\ ResponsesFor(1) # {} /\ Acked(2) /\ ResponsesFor(2) = {}
    /\ Count(ResponseCallsFor(2)) = 1
    /\ pc[Reader] = "idle" /\ rd.last = WaitResult("WriteMessage")

\* C17: a HandshakeResponse is never overridden as a first write: when readMsg
\* dispatches a frame its acknowledgment has been sent and synSent is true, so
\* every HandshakeResponse on the wire carries the Data flag and the
\* sequenceNumber of the request it answers, and follows that request's
\* acknowledgment.
C17_ResponseNotOverridden ==
    /\ pc[Reader] = "dispatch" => (synSent /\ Acked(Len(rx)))
    /\ \A i \in 1..Len(Heads) :
          Sent(i).ptype = "HandshakeResponse" =>
              /\ Sent(i).flags = "Data"
              /\ Sent(i).re \in 1..Len(rx)
              /\ Sent(i).seq = rx[Sent(i).re].seq
              /\ \E a \in AcksFor(Sent(i).re) : a < i

\* C17 witness: the client's first two messages are the overridden
\* acknowledgment of a handshake request numbered other than 0 and the
\* response carrying that number.
C17_Witness ==
    /\ Len(Heads) = 2 /\ Len(rx) = 1 /\ rx[1].seq # 0
    /\ Sent(1).mtype = "Acknowledge" /\ Sent(1).flags = "Syn" /\ Sent(1).seq = 0
    /\ Sent(2).ptype = "HandshakeResponse" /\ Sent(2).seq = rx[1].seq
    /\ ops = 0

IsOutput(f) == f.valid /\ f.mtype = "OutputStreamData" /\ f.ptype = "Output"

\* C18: WaitForHandshakeComplete delivers no application data: an Output frame
\* it reads is acknowledged and its payload dropped; the sink holds only what
\* readMsg returned to WriteTo; the call's count is 0; and the frame is never
\* returned again: whatever a later Read or WriteTo gets are the bytes of the
\* frame it read itself.
C18_WaitDeliversNoData ==
    /\ sink = WriteToData(Len(log))
    /\ rd.last.call = "WaitForHandshakeComplete" => rd.last.n = 0
    /\ \A i \in 1..Len(log) :
          (log[i].call = "WaitForHandshakeComplete" /\ log[i].id > 0 /\ IsOutput(rx[log[i].id]))
              => /\ ~log[i].data.isNil => Acked(log[i].id)
                 /\ Returns(log[i].id) = {i}
    /\ \A j \in 1..Len(log) :
          ~log[j].data.isNil =>
              /\ log[j].id > 0
              /\ log[j].data.bytes = rx[log[j].id].bytes
              /\ \A i \in 1..(j - 1) : log[i].id # log[j].id

\* C18 witness: WaitForHandshakeComplete read and acknowledged an Output frame
\* and returned after the next frame; a Read call made after it returned, and
\* the sink is empty.
C18_Witness ==
    /\ Len(rx) = 2 /\ IsOutput(rx[1]) /\ Acked(1)
    /\ Len(log) = 3
    /\ log[1].call = "WaitForHandshakeComplete" /\ ~log[1].data.isNil
    /\ log[2].k = log[1].k
    /\ log[3].call = "Read" /\ log[3].data.isNil
    /\ pc[Reader] = "idle" /\ rd.last.call = "Read" /\ rd.last.n = 0
    /\ sink = <<>>

\* The returns of readMsg to the reader's k-th call.
ReadsOf(k) == {i \in 1..Len(log) : log[i].k = k}

\* C19: in WaitForHandshakeComplete the signal is checked before every read:
\* once it has fired the call is at its select and makes no transport read;
\* the frame that fired it is the call's last, the call returns nil and the
\* next inbound frame stays unread; a call made after the signal fired returns
\* nil with no read at all.
C19_NoReadAfterComplete ==
    /\ (InWait /\ handshakeCh = "closed") => pc[Reader] = "select"
    /\ \A i \in 1..Len(log) :
          (log[i].call = "WaitForHandshakeComplete" /\ log[i].id \in Range(fired))
              => /\ \A j \in (i + 1)..Len(log) : log[j].k # log[i].k
                 /\ rd.calls = log[i].k =>
                       /\ Len(rx) = log[i].id
                       /\ pc[Reader] = "idle" => rd.last = WaitResult(ErrNil)
    /\ (pc[Reader] = "idle" /\ rd.last.call = "WaitForHandshakeComplete" /\ ReadsOf(rd.calls) = {})
          => (rd.last = WaitResult(ErrNil) /\ fired # <<>>)

\* C19 witness: one WaitForHandshakeComplete call read the HandshakeComplete
\* frame and returned nil, a second one returned nil without a read, and no
\* further frame was taken from the transport.
C19_Witness ==
    /\ Len(rx) = 1 /\ fired = <<1>>
    /\ Len(log) = 1 /\ log[1].call = "WaitForHandshakeComplete" /\ log[1].k = 1
    /\ rd.calls = 2 /\ pc[Reader] = "idle" /\ rd.last = WaitResult(ErrNil)
    /\ ws = "open"

\* The positions on the wire of the messages of Write, SetTerminalSize,
\* TerminateSession and DisconnectPort.
Drawn == {i \in 1..Len(Heads) : Sent(i).op \in WriterOps}
ConsecutiveDraws ==
    \A i, j \in Drawn :
        (i < j /\ \A k \in (i + 1)..(j - 1) : k \notin Drawn) => Sent(j).seq = Sent(i).seq + 1
ReaderKeepsCounter == (synSent /\ pc'[Reader] # pc[Reader]) => seqNum' = seqNum

\* C20: once the first message has been sent, no step of the receive loop
\* (acknowledgment and handshake-response sends included) changes the
\* counter, and the numbers of sequential Write, SetTerminalSize,
\* TerminateSession and DisconnectPort messages are consecutive however many
\* acknowledgments and responses were sent in between.
C20_AcksLeaveCounter == []ConsecutiveDraws /\ [][ReaderKeepsCounter]_vars

\* C20 witness: between two messages of the writer the receive loop sent an
\* acknowledgment and a handshake response, and the writer's second number is
\* one more than its first.
C20_Witness ==
    \E i \in 1..Len(Heads) :
        /\ i + 3 <= Len(Heads)
        /\ Sent(i).op \in WriterOps /\ Sent(i + 3).op \in WriterOps
        /\ Sent(i + 1).op = "SendAcknowledgeMessage"
        /\ Sent(i + 2).op = "ProcessHandshakeRequest"
        /\ Sent(i + 3).seq = Sent(i).seq + 1

====
